---- MODULE Spec2Model ----
(***************************************************************************)
(* Drift-diffusion simulator, decision extraction, histogram summary       *)
(* statistics and rejection ABC of                                         *)
(* module1/week3/project1_week3_parameter_inference.ipynb.                 *)
(*                                                                         *)
(* Numbers.  Real quantities are exact rationals kept as integer           *)
(* numerators over a denominator that is fixed for the whole call:         *)
(*   - linspace(lo, hi, num) returns the numerators of its points over     *)
(*     Den(num) = num - 1, so its end points are exactly lo and hi;        *)
(*   - inside simulator, positions, the boundary and the horizon are all   *)
(*     carried in units of 1/Den(N), N = int(T/dt), the unit of tspan.     *)
(*     find_rts_and_decisions and calculate_histogram_stats only compare,  *)
(*     negate and copy their inputs, so they are independent of the unit.  *)
(* Arrays are sequences (2-D arrays: sequences of rows); Python index i is *)
(* index i + 1 here.                                                       *)
(***************************************************************************)
EXTENDS Integers, Sequences, FiniteSets, TLC

VARIABLES pc, args, parameters, idx_param, tspan, x_traces, stats, dW, arr, ret

vars == <<pc, args, parameters, idx_param, tspan, x_traces, stats, dW, arr, ret>>

(***************************************************************************)
(* Bounds of the explored inputs.                                          *)
(***************************************************************************)
MaxTrials == 2
MaxParams == 2
MaxT == 3
MaxBins == 5
MaxDraws == 4
MaxRows == 2
MaxLen == 3
MaxFindCells == 4
MaxHistCells == 3
MaxBudget == 3
MaxQd == 3

MuSet == {-1, 0, 1}
TSet == {2, 3, 5}
DtSet == {1, 2, 3}
SigmaSet == {0, 1}
NoiseSet == {-1, 1}
Y0Set == {0, 1}
ASet == {0, 1, 2}
ValSet == {-2, -1, 0, 1, 2}
DecisionSet == {-1, 0, 1}
SummarySet == [1..1 -> 0..2]

(***************************************************************************)
(* numpy helpers                                                           *)
(***************************************************************************)
Abs(v) == IF v < 0 THEN -v ELSE v

sign(v) == IF v > 0 THEN 1 ELSE IF v < 0 THEN -1 ELSE 0

Den(num) == IF num > 1 THEN num - 1 ELSE 1

\* np.linspace(lo, hi, num): numerators over Den(num)
linspace(lo, hi, num) == [i \in 1..num |-> lo * Den(num) + (i - 1) * (hi - lo)]

\* Variant of num_steps that rounds up.
num_steps_ceil(T, dt) == (T + dt - 1) \div dt

\* int(T/dt) for positive T, dt
num_steps(T, dt) == T \div dt

\* np.repeat(mu, k): every element k times, consecutively
repeat(mu, k) == [i \in 1..(Len(mu) * k) |-> mu[((i - 1) \div k) + 1]]

Transpose(m, ncols) == [c \in 1..ncols |-> [r \in 1..Len(m) |-> m[r][c]]]

RECURSIVE Cat(_)
\* torch.cat / concatenation of a list of sequences
Cat(list) == IF list = <<>> THEN <<>> ELSE Head(list) \o Cat(Tail(list))

RECURSIVE SumSeq(_)
SumSeq(s) == IF s = <<>> THEN 0 ELSE Head(s) + SumSeq(Tail(s))

RECURSIVE SortedSeq(_)
SortedSeq(S) ==
    IF S = {} THEN <<>>
    ELSE LET m == CHOOSE v \in S : \A w \in S : v <= w
         IN  <<m>> \o SortedSeq(S \ {m})

Range(s) == {s[i] : i \in DOMAIN s}

\* np.unique(rows)
unique(rows) == SortedSeq(Range(rows))

\* Variant of first_index with the occurrence taken from the wrong end.
last_index(rows, u) ==
    [j \in DOMAIN u |->
        CHOOSE i \in DOMAIN rows :
            rows[i] = u[j] /\ \A k \in DOMAIN rows : rows[k] = u[j] => k <= i]

first_index(rows, u) ==
    [j \in DOMAIN u |->
        CHOOSE i \in DOMAIN rows :
            rows[i] = u[j] /\ \A k \in DOMAIN rows : rows[k] = u[j] => i <= k]

\* np.unique(rows, return_index=True)[1]: first occurrence of each unique value
unique_index(rows) == first_index(rows, unique(rows))

\* abs(x) >= a, one entry
\* Variant of crossing that looks at the upper boundary only.
crossing_upper(v, a) == v >= a

crossing(v, a) == Abs(v) >= a

\* ((abs(x) >= a)).nonzero(): the <<row, col>> pairs in row-major order
nonzero(x, a) ==
    LET R == Len(x)
        n == IF R = 0 THEN 0 ELSE Len(x[1])
        all == [k \in 1..(R * n) |-> <<((k - 1) \div n) + 1, ((k - 1) % n) + 1>>]
    IN  SelectSeq(all, LAMBDA p : crossing(x[p[1]][p[2]], a))

(***************************************************************************)
(* find_rts_and_decisions                                                  *)
(***************************************************************************)
Column(pairs, k) == [i \in DOMAIN pairs |-> pairs[i][k]]

\* [i for i in range(num_trials) if i not in unique_rows]
undecided(num_trials, unique_rows) ==
    SelectSeq([i \in 1..num_trials |-> i], LAMBDA i : i \notin Range(unique_rows))

\* Variant of force_last that forces the last value of every row.
force_last_all(x, undecided_idx, a) ==
    [r \in DOMAIN x |-> [x[r] EXCEPT ![Len(x[r])] = a * sign(x[r][Len(x[r])])]]

\* x_traces_param[undecided_idx, -1] = a * np.sign(x_traces_param[undecided_idx, -1])
force_last(x, undecided_idx, a) ==
    [r \in DOMAIN x |->
        IF r \in Range(undecided_idx)
        THEN [x[r] EXCEPT ![Len(x[r])] = a * sign(x[r][Len(x[r])])]
        ELSE x[r]]

\* Lines 168-175: first search, undecided trials, forcing of the last bin.
\* The result is the slice as the loop body leaves it (a view of the
\* caller's array).
enforce_decisions(x_traces_param, num_trials, a) ==
    force_last(x_traces_param,
               undecided(num_trials, unique(Column(nonzero(x_traces_param, a), 1))),
               a)

\* decision_idx = cols[trial_idx]
take(cols, trial_idx) == [j \in DOMAIN trial_idx |-> cols[trial_idx[j]]]

\* np.sign(x_traces_param[unique_rows, decision_idx])
signs_at(x, unique_rows, decision_idx) ==
    [j \in DOMAIN unique_rows |-> sign(x[unique_rows[j]][decision_idx[j]])]

outcomes(x, unique_rows, decision_idx, tsp) ==
    [x |-> x,
     rt |-> take(tsp, decision_idx),
     decisions |-> signs_at(x, unique_rows, decision_idx)]

\* Lines 178-187: second search on the forced slice x; nz is its nonzero().
extract(x, nz, tsp) ==
    outcomes(x, unique(Column(nz, 1)),
             take(Column(nz, 2), unique_index(Column(nz, 1))), tsp)

search_again(x, tsp, a) == extract(x, nonzero(x, a), tsp)

\* One pass of the loop over param_idx.
find_param(x_traces_param, num_trials, tsp, a) ==
    search_again(enforce_decisions(x_traces_param, num_trials, a), tsp, a)

is_ragged(rts) == \E p, q \in DOMAIN rts : Len(rts[p]) # Len(rts[q])

\* per[p] is the result of pass p.  rts and decisions hold one row per
\* parameter, x_traces is the caller's array as the call leaves it, ragged
\* tells that the rows differ in length (np.array(rts) is not rectangular).
collect(per) ==
    [raised |-> "none",
     rts |-> [p \in DOMAIN per |-> per[p].rt],
     decisions |-> [p \in DOMAIN per |-> per[p].decisions],
     x_traces |-> Cat([p \in DOMAIN per |-> per[p].x]),
     ragged |-> is_ragged([p \in DOMAIN per |-> per[p].rt])]

\* The whole call; raised = "AssertionError" when the assert fails.
find_rts_and_decisions(x_trs, num_parameters, num_trials, tsp, a) ==
    IF Len(x_trs) # num_parameters * num_trials
    THEN [raised |-> "AssertionError", rts |-> <<>>, decisions |-> <<>>,
          x_traces |-> x_trs, ragged |-> FALSE]
    ELSE collect([p \in 1..num_parameters |->
                    find_param(SubSeq(x_trs, (p - 1) * num_trials + 1, p * num_trials),
                               num_trials, tsp, a)])

(***************************************************************************)
(* calculate_histogram_stats                                               *)
(***************************************************************************)
\* a.searchsorted(v, 'left') on the sorted data: how many entries are < v;
\* 'right': how many are <= v.  Data entries s are in the unit of T, the
\* edges are numerators over den, so s is compared as s * den.
searchsorted_left(data, edge, den) ==
    Cardinality({i \in DOMAIN data : data[i] * den < edge})

searchsorted_right(data, edge, den) ==
    Cardinality({i \in DOMAIN data : data[i] * den <= edge})

\* Variant of cum_n with the last edge left-inclusive like the others.
cum_n_open(data, bins, den) ==
    [i \in DOMAIN bins |-> searchsorted_left(data, bins[i], den)]

\* cumulative counts at the edges: left-inclusive, the last edge right-inclusive
cum_n(data, bins, den) ==
    [i \in DOMAIN bins |->
        IF i < Len(bins) THEN searchsorted_left(data, bins[i], den)
        ELSE searchsorted_right(data, bins[i], den)]

diff(c) == [i \in 1..(Len(c) - 1) |-> c[i + 1] - c[i]]

\* np.histogram(data, bins=bins)[0] for an array of bin edges
histogram(data, bins, den) == diff(cum_n(data, bins, den))

\* rts * decisions, elementwise
times(rts, decisions) ==
    [r \in DOMAIN rts |-> [j \in DOMAIN rts[r] |-> rts[r][j] * decisions[r][j]]]

count_rows(sign_rts, bins, den) ==
    [r \in DOMAIN sign_rts |-> histogram(sign_rts[r], bins, den)]

calculate_histogram_stats(rts, decisions, T, nbins) ==
    count_rows(times(rts, decisions), linspace(-T, T, nbins), Den(nbins))

(***************************************************************************)
(* simulator                                                               *)
(***************************************************************************)
\* sdeint.itoEuler(f, G, y0, tspan) with the Wiener increments dWm it drew:
\* y[0] = y0, y[n+1] = y[n] + f*h + G.dot(dW[n]), h = (tspan[N-1]-tspan[0])/(N-1).
\* f is the constant drift vector, G = sigma * identity.
itoEuler(f, sigma, y0, tsp, dWm) ==
    LET h == (tsp[Len(tsp)] - tsp[1]) \div (Len(tsp) - 1)
        y[n \in DOMAIN tsp] ==
            IF n = 1 THEN y0
            ELSE [i \in DOMAIN y0 |-> y[n - 1][i] + f[i] * h + sigma * dWm[n - 1][i]]
    IN  [n \in DOMAIN tsp |-> y[n]]

\* Lines 108-111: a Python float becomes a 1-element tensor, a 1-D tensor
\* becomes ONE row holding all its elements, an N x 1 tensor is kept.
normalise(p) ==
    IF p.kind = "float" THEN << <<p.vals[1]>> >>
    ELSE IF p.kind = "1d" THEN <<p.vals>>
    ELSE [i \in DOMAIN p.vals |-> <<p.vals[i]>>]

scale(m, den) == [n \in DOMAIN m |-> [i \in DOMAIN m[n] |-> m[n][i] * den]]

\* Line 137: the integrated paths, one row per trial, in units of 1/Den(N).
integrate(mu_expanded, num_simulations, sigma, y0, tsp, noise) ==
    Transpose(itoEuler(mu_expanded, sigma,
                       [i \in 1..num_simulations |-> y0 * Den(Len(tsp))],
                       tsp, scale(noise, Den(Len(tsp)))),
              num_simulations)

\* Lines 140-144 on the result of find_rts_and_decisions.
summarise(tsp, path, found, T, nbins) ==
    [raised |-> "none", tspan |-> tsp, path |-> path,
     x_traces_param |-> found.x_traces,
     rts |-> found.rts, decisions |-> found.decisions,
     stats_param |-> calculate_histogram_stats(found.rts, found.decisions, T, nbins)]

\* Line 139: decision extraction on the integrated paths.
extract_and_summarise(tsp, path, num_trials, a, T, nbins) ==
    summarise(tsp, path, find_rts_and_decisions(path, 1, num_trials, tsp, a), T, nbins)

\* sdeint rejects a time grid of fewer than 2 points (min() of an empty
\* np.diff) and np.dot rejects eye(num_simulations).dot(mu_expanded) when
\* mu_expanded has another length; both before any step is integrated.
run_param(mu_expanded, num_trials, sigma, T, y0, a, nbins, tsp, noise) ==
    IF Len(tsp) < 2 \/ Len(mu_expanded) # num_trials
    THEN [raised |-> "ValueError", tspan |-> tsp]
    ELSE extract_and_summarise(tsp,
             integrate(mu_expanded, num_trials, sigma, y0, tsp, noise),
             num_trials, a * Den(Len(tsp)), T * Den(Len(tsp)), nbins)

\* The body of the loop over idx_param for the row mu of parameters, with
\* noise the standard increments drawn for its trials (steps x trials).
simulate_param(mu, num_trials, sigma, T, y0, a, nbins, dt, noise) ==
    run_param(repeat(mu, num_trials), num_trials, sigma, T, y0, a, nbins,
              linspace(0, T, num_steps(T, dt)), noise)

ParamInputs ==
    [kind : {"float"}, vals : [1..1 -> MuSet]]
    \cup UNION {[kind : {"1d", "2d"}, vals : [1..k -> MuSet]] : k \in 1..MaxParams}

Init ==
    /\ pc = "idle"
    /\ args = [op |-> "none"]
    /\ parameters = <<>>
    /\ idx_param = 0
    /\ tspan = <<>>
    /\ x_traces = <<>>
    /\ stats = <<>>
    /\ dW = <<>>
    /\ arr = <<>>
    /\ ret = "None"

SimCall ==
    /\ pc = "idle"
    /\ \E p \in ParamInputs, num_trials \in 1..MaxTrials, sigma \in SigmaSet,
          T \in TSet, dt \in DtSet, y0 \in Y0Set, a \in ASet,
          return_traces \in BOOLEAN, nbins \in 2..MaxBins :
          /\ Len(normalise(p)) * num_trials * (num_steps(T, dt) - 1) <= MaxDraws
          /\ args' = [op |-> "simulator", parameters |-> p, num_trials |-> num_trials,
                      sigma |-> sigma, T |-> T, y0 |-> y0, a |-> a,
                      return_traces |-> return_traces, nbins |-> nbins, dt |-> dt]
          /\ parameters' = normalise(p)
    /\ pc' = "loop"
    /\ idx_param' = 0
    /\ x_traces' = <<>>
    /\ stats' = <<>>
    /\ UNCHANGED <<tspan, dW, arr, ret>>

\* The effect of one pass r of the loop body on the state.
IterStep(r, noise) ==
    /\ tspan' = r.tspan
    /\ IF r.raised # "none"
       THEN /\ pc' = "raised"
            /\ ret' = r.raised
            /\ UNCHANGED <<idx_param, x_traces, stats, dW>>
       ELSE /\ x_traces' = Append(x_traces, r.x_traces_param)
            /\ stats' = Append(stats, r.stats_param)
            /\ dW' = Append(dW, noise)
            /\ idx_param' = idx_param + 1
            /\ UNCHANGED <<pc, ret>>

\* Number of Wiener increments per trial that pass idx_param draws: none
\* when the pass raises before integrating.
steps_drawn(mu, T, dt) ==
    IF num_steps(T, dt) < 2 \/ Len(mu) # 1 THEN 0 ELSE num_steps(T, dt) - 1

SimIter ==
    /\ pc = "loop"
    /\ idx_param < Len(parameters)
    /\ \E noise \in [1..steps_drawn(parameters[idx_param + 1], args.T, args.dt) ->
                        [1..args.num_trials -> NoiseSet]] :
          IterStep(simulate_param(parameters[idx_param + 1], args.num_trials,
                                  args.sigma, args.T, args.y0, args.a,
                                  args.nbins, args.dt, noise),
                   noise)
    /\ UNCHANGED <<args, parameters, arr>>

SimReturn ==
    /\ pc = "loop"
    /\ idx_param = Len(parameters)
    /\ x_traces' = Cat(x_traces)
    /\ stats' = Cat(stats)
    /\ ret' = IF args.return_traces THEN <<x_traces', stats'>> ELSE stats'
    /\ pc' = "returned"
    /\ UNCHANGED <<args, parameters, idx_param, tspan, dW, arr>>

Next == SimCall \/ SimIter \/ SimReturn

Spec == Init /\ [][Next]_vars

(***************************************************************************)
(* Direct calls of find_rts_and_decisions on arbitrary trajectory arrays   *)
(***************************************************************************)
\* The return statement: np.array(rts), np.array(decisions).  For rows of
\* different lengths the outcome depends on the numpy release: an object
\* array of the rows, or ValueError.
FindReturn(r, ragged_raises) ==
    /\ ragged_raises => r.ragged
    /\ arr' = r.x_traces
    /\ IF r.raised # "none"
       THEN pc' = "raised" /\ ret' = r.raised
       ELSE IF r.ragged /\ ragged_raises
       THEN pc' = "raised" /\ ret' = "ValueError"
       ELSE pc' = "returned" /\ ret' = [rts |-> r.rts, decisions |-> r.decisions]

FindCall ==
    /\ pc = "idle"
    /\ \E R \in 1..MaxRows, n \in 1..MaxLen :
          /\ R * n <= MaxFindCells
          /\ \E x \in [1..R -> [1..n -> ValSet]], num_parameters \in 1..MaxParams,
                num_trials \in 1..MaxTrials, a \in ASet, ragged_raises \in BOOLEAN :
                /\ args' = [op |-> "find_rts_and_decisions", x_traces |-> x,
                            num_parameters |-> num_parameters,
                            num_trials |-> num_trials, a |-> a]
                /\ tspan' = linspace(0, MaxT, n)
                /\ FindReturn(find_rts_and_decisions(x, num_parameters, num_trials,
                                                     linspace(0, MaxT, n), a),
                              ragged_raises)
    /\ UNCHANGED <<parameters, idx_param, x_traces, stats, dW>>

FindNext == FindCall

FindSpec == Init /\ [][FindNext]_vars

(***************************************************************************)
(* Direct calls of calculate_histogram_stats                               *)
(***************************************************************************)
HistCall ==
    /\ pc = "idle"
    /\ \E P \in 1..MaxParams, m \in 0..MaxTrials, T \in 1..MaxT, nbins \in 2..MaxBins :
          /\ P * m <= MaxHistCells
          /\ \E rts \in [1..P -> [1..m -> 0..T]],
                decisions \in [1..P -> [1..m -> DecisionSet]] :
                /\ args' = [op |-> "calculate_histogram_stats", rts |-> rts,
                            decisions |-> decisions, T |-> T, nbins |-> nbins]
                /\ ret' = calculate_histogram_stats(rts, decisions, T, nbins)
    /\ pc' = "returned"
    /\ UNCHANGED <<parameters, idx_param, tspan, x_traces, stats, dW, arr>>

HistNext == HistCall

HistSpec == Init /\ [][HistNext]_vars

(***************************************************************************)
(* rejection_abc.  The notebook leaves its body to the reader (lines       *)
(* 315-323 hold the signature and "return samples"); the body here follows *)
(* the specification: draw, simulate, score, stable ascending sort, keep   *)
(* the floor(num_simulations * q) closest.  q is the rational qn / qd.     *)
(***************************************************************************)
\* torch.norm(observation - simulated_data, dim=-1), as its square: only the
\* order of the distances is used.
l2_distance(observation, simulated_data) ==
    SumSeq([i \in DOMAIN observation |->
               (observation[i] - simulated_data[i]) * (observation[i] - simulated_data[i])])

\* Variant of num_accepted that rounds up.
num_accepted_ceil(num_simulations, qn, qd) == (num_simulations * qn + qd - 1) \div qd

\* floor(num_simulations * q)
num_accepted(num_simulations, qn, qd) == (num_simulations * qn) \div qd

\* i comes before j in the stable ascending sort of the distances
before(d, i, j) == d[i] < d[j] \/ (d[i] = d[j] /\ i < j)

\* stable argsort: position k holds the index with exactly k - 1 predecessors
argsort(d) ==
    [k \in DOMAIN d |->
        CHOOSE i \in DOMAIN d :
            Cardinality({j \in DOMAIN d : before(d, j, i)}) = k - 1]

select(params, idx, k) == [j \in 1..k |-> params[idx[j]][1]]

distances(observed_data, simulated) ==
    [i \in DOMAIN simulated |-> l2_distance(observed_data, simulated[i])]

\* params are the prior draws, simulated their summary statistics; the
\* distances are evaluated once (d) and then sorted.
rejection_abc(params, simulated, observed_data, num_simulations, qn, qd) ==
    CHOOSE r \in {select(params, argsort(d), num_accepted(num_simulations, qn, qd)) :
                    d \in {distances(observed_data, simulated)}} : TRUE

AbcReturn(params, simulated, observed_data, num_simulations, qn, qd) ==
    /\ pc' = "returned"
    /\ parameters' = params
    /\ stats' = simulated
    /\ ret' = rejection_abc(params, simulated, observed_data, num_simulations, qn, qd)

AbcCall ==
    /\ pc = "idle"
    /\ \E num_simulations \in 0..MaxBudget, qd \in 1..MaxQd, observed_data \in SummarySet :
          \E qn \in 0..(qd + 1) :
             /\ args' = [op |-> "rejection_abc", observed_data |-> observed_data,
                         num_simulations |-> num_simulations, qn |-> qn, qd |-> qd]
             /\ IF num_simulations < 1 \/ qn < 1 \/ qn > qd
                THEN /\ pc' = "raised"
                     /\ ret' = "InvalidConfiguration"
                     /\ UNCHANGED <<parameters, stats>>
                ELSE \E params \in [1..num_simulations -> [1..1 -> MuSet]],
                        simulated \in [1..num_simulations -> SummarySet] :
                        AbcReturn(params, simulated, observed_data,
                                  num_simulations, qn, qd)
    /\ UNCHANGED <<idx_param, tspan, x_traces, dW, arr>>

AbcNext == AbcCall

AbcSpec == Init /\ [][AbcNext]_vars

(***************************************************************************)
(* Properties                                                              *)
(***************************************************************************)
Returned(op) == pc = "returned" /\ args.op = op

Finished(op) == pc \in {"returned", "raised"} /\ args.op = op

\* The summary statistics a returned call of simulator hands back.
RetStats == IF args.return_traces THEN ret[2] ELSE ret

Crosses(row, a) == \E k \in DOMAIN row : Abs(row[k]) >= a

FirstCrossing(row, a) ==
    CHOOSE k \in DOMAIN row : Abs(row[k]) >= a /\ \A j \in 1..(k - 1) : Abs(row[j]) < a

\* An undecided trial that ends exactly at 0: its forced value a * sign(0)
\* is 0 and does not reach a positive boundary.
Degenerate(row, a) == ~Crosses(row, a) /\ row[Len(row)] = 0

\* Trial i (1-based) of parameter p in the array given to find_rts_and_decisions.
TrialRow(p, i) == args.x_traces[(p - 1) * args.num_trials + i]

\* Where trial i of parameter p stands in the returned row: trials are
\* reported in trial order and degenerate trials have no entry.
Position(p, i) ==
    i - Cardinality({j \in 1..(i - 1) : Degenerate(TrialRow(p, j), args.a)})

\* C1: for a > 0, num_trials >= 1, nbins >= 2, every SummaryVector row that
\* simulator returns has non-negative counts that sum to num_trials.
C1_CountsSumToNumTrials ==
    (Returned("simulator") /\ args.a > 0) =>
        \A r \in DOMAIN RetStats :
            /\ \A b \in DOMAIN RetStats[r] : RetStats[r][b] >= 0
            /\ SumSeq(RetStats[r]) = args.num_trials

\* C2: find_rts_and_decisions on an array of num_trials rows returns exactly
\* num_trials outcomes, each with reaction_time in [0, T] and decision in
\* {-1, +1}.
C2_OneOutcomePerTrial ==
    (Returned("find_rts_and_decisions") /\ args.num_parameters = 1 /\ args.a > 0) =>
        /\ Len(ret.rts[1]) = args.num_trials
        /\ Len(ret.decisions[1]) = args.num_trials
        /\ \A j \in DOMAIN ret.rts[1] :
              tspan[1] <= ret.rts[1][j] /\ ret.rts[1][j] <= tspan[Len(tspan)]
        /\ \A j \in DOMAIN ret.decisions[1] : ret.decisions[1][j] \in {-1, 1}

\* C3: a trial that reaches |X| >= a is reported with reaction_time =
\* tspan[k] and decision = sign(X[k]), k the smallest index with |X[k]| >= a
\* in that trial's own row; later crossings do not matter.  The outcome
\* stands at the trial's place among the reported trials of its parameter.
C3_FirstCrossingReported ==
    Returned("find_rts_and_decisions") =>
        \A p \in 1..args.num_parameters, i \in 1..args.num_trials :
            Crosses(TrialRow(p, i), args.a) =>
                /\ Position(p, i) \in DOMAIN ret.rts[p]
                /\ ret.rts[p][Position(p, i)] =
                      tspan[FirstCrossing(TrialRow(p, i), args.a)]
                /\ ret.decisions[p][Position(p, i)] =
                      sign(TrialRow(p, i)[FirstCrossing(TrialRow(p, i), args.a)])

\* A returned call with two trials of one parameter that first cross at
\* different indices, one of them crossing the opposite boundary later.
C3_Witness ==
    /\ Returned("find_rts_and_decisions")
    /\ args.a > 0
    /\ args.num_parameters = 1
    /\ args.num_trials = 2
    /\ Crosses(TrialRow(1, 1), args.a)
    /\ Crosses(TrialRow(1, 2), args.a)
    /\ FirstCrossing(TrialRow(1, 1), args.a) > FirstCrossing(TrialRow(1, 2), args.a)
    /\ \E k \in DOMAIN TrialRow(1, 2) :
          /\ k > FirstCrossing(TrialRow(1, 2), args.a)
          /\ Abs(TrialRow(1, 2)[k]) >= args.a
          /\ sign(TrialRow(1, 2)[k]) # sign(TrialRow(1, 2)[FirstCrossing(TrialRow(1, 2), args.a)])
    /\ ret.rts[1] = <<tspan[FirstCrossing(TrialRow(1, 1), args.a)],
                      tspan[FirstCrossing(TrialRow(1, 2), args.a)]>>

\* C5: simulator with a <= 0 fails and returns nothing.
C5_NonPositiveBoundaryRejected ==
    ~(Returned("simulator") /\ args.a <= 0)

\* C6: an undecided trial that ends exactly at X(T) = 0 is surfaced: the
\* call raises, or the trial keeps its own entry with the sentinel decision 0.
C6_DegeneracySurfaced ==
    (/\ Finished("find_rts_and_decisions")
     /\ args.num_parameters = 1
     /\ args.a > 0
     /\ Len(args.x_traces) = args.num_trials) =>
        \A i \in 1..args.num_trials :
            Degenerate(TrialRow(1, i), args.a) =>
                \/ pc = "raised"
                \/ /\ Len(ret.decisions[1]) = args.num_trials
                   /\ ret.decisions[1][i] = 0

\* C7: every trajectory has floor(T/dt) samples, the time grid has that
\* length and runs from 0 to T, the trace array has P * num_trials rows and
\* every summary has nbins - 1 entries (T = 5, dt = 0.01 in units of 0.01:
\* 500 samples).
C7_ShapesFollowFloor ==
    /\ num_steps(500, 1) = 500
    /\ (pc = "loop" /\ args.op = "simulator") =>
          \A p \in DOMAIN x_traces :
              /\ Len(x_traces[p]) = args.num_trials
              /\ \A r \in DOMAIN x_traces[p] :
                    Len(x_traces[p][r]) = args.T \div args.dt
              /\ Len(stats[p]) = 1
              /\ Len(stats[p][1]) = args.nbins - 1
    /\ Returned("simulator") =>
          /\ Len(tspan) = args.T \div args.dt
          /\ tspan[1] = 0
          /\ tspan[Len(tspan)] = args.T * Den(Len(tspan))
          /\ Len(x_traces) = Len(args.parameters.vals) * args.num_trials
          /\ \A r \in DOMAIN x_traces : Len(x_traces[r]) = args.T \div args.dt
          /\ args.return_traces => ret[1] = x_traces
          /\ Len(RetStats) = Len(args.parameters.vals)
          /\ \A r \in DOMAIN RetStats : Len(RetStats[r]) = args.nbins - 1

\* Two parameters, two trials each, T/dt = 5/2 not a whole number: the
\* returned traces are 4 rows of 2 samples.
C7_Witness ==
    /\ Returned("simulator")
    /\ args.return_traces
    /\ args.a > 0
    /\ args.T = 5
    /\ args.dt = 2
    /\ Len(args.parameters.vals) = 2
    /\ args.num_trials = 2
    /\ Len(ret[1]) = 4
    /\ \A r \in DOMAIN ret[1] : Len(ret[1][r]) = 2
    /\ Len(ret[2]) = 2

\* Edge i (1-based) of nbins edges linearly spaced from -T to T, times nbins - 1.
EdgeNum(i, T, nbins) == 2 * T * (i - 1) - T * (nbins - 1)

\* s lies in bin i: edge[i] <= s < edge[i+1], the last bin also holding s = T.
InBin(s, i, T, nbins) ==
    /\ EdgeNum(i, T, nbins) <= s * (nbins - 1)
    /\ \/ s * (nbins - 1) < EdgeNum(i + 1, T, nbins)
       \/ (i = nbins - 1 /\ s = T)

SignedRt(r, j) == args.rts[r][j] * args.decisions[r][j]

\* C8: calculate_histogram_stats returns nbins - 1 counts per row, bin i
\* counting the signed reaction times s with edge[i] <= s < edge[i+1], the
\* last bin also s = T; so s = +T is in the last bin and s = -T in the first.
C8_HalfOpenBins ==
    Returned("calculate_histogram_stats") =>
        /\ Len(ret) = Len(args.rts)
        /\ \A r \in DOMAIN ret :
              /\ Len(ret[r]) = args.nbins - 1
              /\ \A i \in 1..(args.nbins - 1) :
                    ret[r][i] = Cardinality({j \in DOMAIN args.rts[r] :
                                    InBin(SignedRt(r, j), i, args.T, args.nbins)})
              /\ \A j \in DOMAIN args.rts[r] :
                    /\ SignedRt(r, j) = args.T => ret[r][args.nbins - 1] >= 1
                    /\ SignedRt(r, j) = -args.T => ret[r][1] >= 1

\* One row holding s = +T and s = -T, with at least two bins.
C8_Witness ==
    /\ Returned("calculate_histogram_stats")
    /\ args.nbins >= 3
    /\ \E r \in DOMAIN args.rts :
          /\ Len(args.rts[r]) = 2
          /\ SignedRt(r, 1) = args.T
          /\ SignedRt(r, 2) = -args.T
          /\ ret[r][args.nbins - 1] = 1
          /\ ret[r][1] = 1

\* The Euler-Maruyama paths of pass p, as integrated from the increments drawn.
EulerPath(p) ==
    integrate(repeat(parameters[p], args.num_trials), args.num_trials,
              args.sigma, args.y0, tspan, dW[p])

\* C10: find_rts_and_decisions leaves the array it is given unchanged, and
\* the traces simulator returns are the integrated paths.
C10_InputsUnchanged ==
    /\ Returned("find_rts_and_decisions") => arr = args.x_traces
    /\ (Returned("simulator") /\ args.return_traces) =>
          ret[1] = Cat([p \in DOMAIN parameters |-> EulerPath(p)])

\* Distance of prior draw i of a rejection_abc call to the observed data.
Dist(i) == l2_distance(args.observed_data, stats[i])

\* C4: rejection_abc with budget num_simulations and quantile q in (0, 1]
\* returns exactly floor(num_simulations * q) parameters (100 for budget
\* 10000 and q = 1/100), each a distinct prior draw of the call, and every
\* accepted draw is at least as close to observed_data as every rejected one.
C4_AcceptsClosest ==
    /\ num_accepted(10000, 1, 100) = 100
    /\ Returned("rejection_abc") =>
          /\ Len(ret) = (args.num_simulations * args.qn) \div args.qd
          /\ \E idx \in [DOMAIN ret -> DOMAIN parameters] :
                /\ \A j, k \in DOMAIN ret : idx[j] = idx[k] => j = k
                /\ \A j \in DOMAIN ret : ret[j] = parameters[idx[j]][1]
                /\ \A i \in DOMAIN parameters :
                      (\A j \in DOMAIN ret : idx[j] # i) =>
                          \A j \in DOMAIN ret : Dist(idx[j]) <= Dist(i)

\* Budget 3 and q = 1/2: floor(1.5) = 1 draw is accepted, the third, which
\* is strictly closer than the two rejected ones.
C4_Witness ==
    /\ Returned("rejection_abc")
    /\ args.num_simulations = 3
    /\ args.qn = 1
    /\ args.qd = 2
    /\ Len(ret) = 1
    /\ ret[1] = parameters[3][1]
    /\ parameters[1][1] # ret[1]
    /\ parameters[2][1] # ret[1]
    /\ Dist(3) < Dist(1)
    /\ Dist(3) < Dist(2)

neg(m) == [i \in DOMAIN m |-> [j \in DOMAIN m[i] |-> -m[i][j]]]

negv(v) == [i \in DOMAIN v |-> -v[i]]

reverse(v) == [i \in DOMAIN v |-> v[Len(v) + 1 - i]]

\* The loop body run for drift row mu with increments noise, under the
\* arguments of the current call.
Pass(mu, noise) ==
    simulate_param(mu, args.num_trials, args.sigma, args.T, args.y0, args.a,
                   args.nbins, args.dt, noise)

\* The pass that has just completed, with y0 = 0.
MirrorCase == pc = "loop" /\ args.op = "simulator" /\ idx_param >= 1 /\ args.y0 = 0

\* No signed reaction time of pass o lies on a bin edge strictly between -T and T.
NoInteriorEdge(o) ==
    \A j \in DOMAIN o.rts[1], i \in 2..(args.nbins - 1) :
        o.rts[1][j] * o.decisions[1][j] * (args.nbins - 1)
            # EdgeNum(i, args.T * Den(Len(tspan)), args.nbins)

\* m is the mirror image of o: negated paths, same reaction times, flipped decisions.
Mirrored(o, m) ==
    /\ m.path = neg(o.path)
    /\ m.x_traces_param = neg(o.x_traces_param)
    /\ m.rts = o.rts
    /\ m.decisions = neg(o.decisions)

\* C9 as stated: with y0 = 0 and the same noise draws, drift -mu negates every
\* trajectory, keeps every reaction time, flips every decision and gives the
\* exactly reversed SummaryVector, also for signed reaction times on a bin edge.
C9_MirrorSameNoise ==
    MirrorCase =>
        \A o \in {Pass(parameters[idx_param], dW[idx_param])},
           m \in {Pass(negv(parameters[idx_param]), dW[idx_param])} :
            /\ Mirrored(o, m)
            /\ m.stats_param[1] = reverse(o.stats_param[1])

\* C9: with y0 = 0 and the noise draws negated along with the drift, every
\* trajectory is negated, every reaction time kept and every decision
\* flipped; the SummaryVector is the exact reversal whenever no signed
\* reaction time lies on a bin edge strictly between -T and T (+/-T included).
C9_MirrorNegatedNoise ==
    MirrorCase =>
        \A o \in {Pass(parameters[idx_param], dW[idx_param])},
           m \in {Pass(negv(parameters[idx_param]), neg(dW[idx_param]))} :
            /\ o.x_traces_param = x_traces[idx_param]
            /\ o.stats_param = stats[idx_param]
            /\ Mirrored(o, m)
            /\ NoInteriorEdge(o) => m.stats_param[1] = reverse(o.stats_param[1])

\* Two trials with noise and non-zero drift: the first crosses before T, the
\* second never crosses and is forced at T; the summary is not symmetric.
C9_Witness ==
    /\ MirrorCase
    /\ args.sigma # 0
    /\ parameters[idx_param][1] # 0
    /\ args.a > 0
    /\ \E o \in {Pass(parameters[idx_param], dW[idx_param])} :
          /\ Len(o.rts[1]) = 2
          /\ o.rts[1][1] < tspan[Len(tspan)]
          /\ o.rts[1][2] = tspan[Len(tspan)]
          /\ o.path # o.x_traces_param
          /\ NoInteriorEdge(o)
          /\ o.stats_param[1] # reverse(o.stats_param[1])

\* The time grid of the current simulator call has fewer than 2 points.
TooFewSteps == num_steps(args.T, args.dt) < 2

\* The assert of find_rts_and_decisions fails for the current call.
CountsMismatch == Len(args.x_traces) # args.num_parameters * args.num_trials

\* C11: every configuration error (a <= 0, fewer than 2 time steps, the
\* row count rejected by the assert of find_rts_and_decisions) is raised
\* before the first trajectory of the call is integrated; no call completes
\* a pass of the loop and then raises.
C11_ConfigErrorsRaisedEagerly ==
    /\ (args.op = "simulator" /\ (args.a <= 0 \/ TooFewSteps)) =>
          /\ pc \in {"loop", "raised"}
          /\ idx_param = 0
          /\ dW = <<>>
    /\ (args.op = "simulator" /\ pc = "raised") =>
          /\ idx_param = 0
          /\ dW = <<>>
          /\ x_traces = <<>>
    /\ (args.op = "find_rts_and_decisions" /\ CountsMismatch) =>
          /\ pc = "raised"
          /\ ret = "AssertionError"
          /\ arr = args.x_traces

\* A trial that never reaches the boundary and does not end at 0.
Forced(row, a) == ~Crosses(row, a) /\ row[Len(row)] # 0

\* The row as the forcing step leaves it.
ForcedRow(row, a) ==
    IF Forced(row, a)
    THEN [row EXCEPT ![Len(row)] = a * sign(row[Len(row)])]
    ELSE row

\* C12: for a trial that never reaches |X| >= a and has X(T) # 0,
\* find_rts_and_decisions changes only the trial's final value, to
\* a * sign(X(T)), and reports reaction_time = tspan[last] and decision =
\* sign(X(T)); a trial that crossed is not forced and keeps its
\* first-crossing outcome.
C12_ForcingOnlyLastOfUndecided ==
    Returned("find_rts_and_decisions") =>
        \A p \in 1..args.num_parameters, i \in 1..args.num_trials :
            /\ arr[(p - 1) * args.num_trials + i] = ForcedRow(TrialRow(p, i), args.a)
            /\ Forced(TrialRow(p, i), args.a) =>
                  /\ Position(p, i) \in DOMAIN ret.rts[p]
                  /\ ret.rts[p][Position(p, i)] = tspan[Len(tspan)]
                  /\ ret.decisions[p][Position(p, i)] =
                        sign(TrialRow(p, i)[Len(TrialRow(p, i))])
            /\ Crosses(TrialRow(p, i), args.a) =>
                  /\ arr[(p - 1) * args.num_trials + i] = TrialRow(p, i)
                  /\ ret.rts[p][Position(p, i)] =
                        tspan[FirstCrossing(TrialRow(p, i), args.a)]
                  /\ ret.decisions[p][Position(p, i)] =
                        sign(TrialRow(p, i)[FirstCrossing(TrialRow(p, i), args.a)])

\* Two trials of two samples, a = 2: the first crosses at index 0 and ends
\* inside the boundaries, the second never crosses and ends at -1; only the
\* second trial's last value is rewritten, to -2.
C12_Witness ==
    /\ Returned("find_rts_and_decisions")
    /\ args.num_parameters = 1
    /\ args.num_trials = 2
    /\ args.a = 2
    /\ args.x_traces = << <<-2, 1>>, <<0, -1>> >>
    /\ arr = << <<-2, 1>>, <<0, -2>> >>
    /\ ret.rts = << <<tspan[1], tspan[2]>> >>
    /\ ret.decisions = << <<-1, -1>> >>

\* C13: for a batch of N parameters, given as an N-element 1-D tensor or as
\* an N x 1 tensor, simulator returns exactly N SummaryVector rows, row i
\* computed from the num_trials trials simulated with parameter i alone, in
\* input order (for a > 0 and a time grid of at least 2 points).
C13_OneRowPerParameter ==
    (Finished("simulator") /\ ~TooFewSteps /\ args.a > 0) =>
        /\ pc = "returned"
        /\ Len(RetStats) = Len(args.parameters.vals)
        /\ \A i \in DOMAIN args.parameters.vals :
              \A o \in {Pass(<<args.parameters.vals[i]>>, dW[i])} :
                  /\ RetStats[i] = o.stats_param[1]
                  /\ args.return_traces =>
                        SubSeq(ret[1], (i - 1) * args.num_trials + 1,
                               i * args.num_trials) = o.x_traces_param
====
